---- MODULE Spec2Model ----
(***************************************************************************)
(* Kannada voter list search (voter_id.py): a Streamlit script that is     *)
(* re-executed top to bottom on every user interaction.  One execution     *)
(* loads the data file through the load cache, and, if the search box is   *)
(* not empty, runs either the smart search (AND over keywords, OR over     *)
(* variations) or the fuzzy search (rapidfuzz process.extract), after      *)
(* asking the memoized transliteration client for Kannada variations of a  *)
(* query that contains a Latin letter.                                     *)
(*                                                                         *)
(* Text is a sequence of characters.  Single letters ("a", "B", ...) are   *)
(* Latin letters, " " is whitespace, "ra" and "vi" stand for two Kannada   *)
(* aksharas (no case, not matched by [a-zA-Z]).  A single data file is     *)
(* selected; rapidfuzz and pandas are modelled by their documented         *)
(* behaviour at the call sites.                                            *)
(***************************************************************************)
EXTENDS Integers, Sequences, FiniteSets, TLC

VARIABLES
    file,               \* contents of the data file on disk (a table)
    load_cache,         \* st.cache_data entry of load_single_file for the path
    df,                 \* the table of the current script run
    translit_cache,     \* st.cache_data entries of transliterate_text
    search_term,        \* text of the search box in the last run
    search_column,      \* selected column in the last run
    use_fuzzy,          \* fuzzy checkbox in the last run
    service,            \* what the transliteration service answers at the last run
    contacted,          \* TRUE iff the last run sent a request to the service
    transliterated,     \* value returned by transliterate_text in the last run
    search_variations,  \* smart mode: the variations searched
    target_term,        \* fuzzy mode: the phrase scored against
    matches,            \* fuzzy mode: (score, index) pairs from process.extract
    results,            \* row positions (1-based) of the result, in result order
    history             \* the last two runs (inputs, table, result), newest last

vars == <<file, load_cache, df, translit_cache, search_term, search_column,
          use_fuzzy, service, contacted, transliterated, search_variations,
          target_term, matches, results, history>>

(***************************************************************************)
(* Text                                                                    *)
(***************************************************************************)
Latin == {"a", "b", "n", "A", "B", "N", "S", "U", "C", "E"}

\* str.upper() on one character
UpperChar(c) ==
    CASE c = "a" -> "A"
      [] c = "b" -> "B"
      [] c = "n" -> "N"
      [] OTHER -> c

\* code point order of the characters
Ord(c) ==
    CASE c = " " -> 32
      [] c = "A" -> 65
      [] c = "B" -> 66
      [] c = "C" -> 67
      [] c = "E" -> 69
      [] c = "N" -> 78
      [] c = "S" -> 83
      [] c = "U" -> 85
      [] c = "a" -> 97
      [] c = "b" -> 98
      [] c = "n" -> 110
      [] c = "ra" -> 3248
      [] c = "vi" -> 3253
      [] OTHER -> 65535

Upper(s) == [i \in 1..Len(s) |-> UpperChar(s[i])]

\* Python `needle in hay`
Contains(hay, needle) ==
    \E i \in 0..(Len(hay) - Len(needle)) :
        SubSeq(hay, i + 1, i + Len(needle)) = needle

\* Series.str.contains(keyword, na=False, case=False, regex=False) on one value
\* variant: case=True
StrContainsCaseSensitive(text, keyword) == Contains(text, keyword)

StrContains(text, keyword) == Contains(Upper(text), Upper(keyword))

\* str.split(): split on runs of whitespace, no empty pieces
RECURSIVE SplitFrom(_, _, _)
SplitFrom(s, i, cur) ==
    IF i > Len(s)
    THEN IF cur = <<>> THEN <<>> ELSE <<cur>>
    ELSE IF s[i] = " "
         THEN (IF cur = <<>> THEN <<>> ELSE <<cur>>) \o SplitFrom(s, i + 1, <<>>)
         ELSE SplitFrom(s, i + 1, Append(cur, s[i]))

Split(s) == SplitFrom(s, 1, <<>>)

\* sep.join(parts)
RECURSIVE Join(_, _)
Join(sep, parts) ==
    IF parts = <<>> THEN <<>>
    ELSE IF Len(parts) = 1 THEN parts[1]
    ELSE parts[1] \o sep \o Join(sep, Tail(parts))

\* bool(re.search(r'[a-zA-Z]', s))
IsEnglish(s) == \E i \in 1..Len(s) : s[i] \in Latin

(***************************************************************************)
(* Tables                                                                  *)
(***************************************************************************)
Columns == <<"Name", "Address">>

AllColumns == "All Columns"

\* a missing cell (pandas NaN); every other cell is text
NaN == <<"<NaN>">>

\* astype(str) on one cell
AsStr(cell) == IF cell = NaN THEN <<"n", "a", "n">> ELSE cell

ColumnIndex(name) == CHOOSE i \in 1..Len(Columns) : Columns[i] = name

\* the per-row searchable text
\* variant: "All Columns" looks at the first column only
SearchSeriesFirstColumnForAll(table, column) ==
    IF column = AllColumns
    THEN [r \in 1..Len(table) |-> AsStr(table[r][1])]
    ELSE [r \in 1..Len(table) |-> AsStr(table[r][ColumnIndex(column)])]

SearchSeries(table, column) ==
    IF column = AllColumns
    THEN [r \in 1..Len(table) |->
            Join(<<" ">>, [c \in 1..Len(Columns) |-> AsStr(table[r][c])])]
    ELSE [r \in 1..Len(table) |-> AsStr(table[r][ColumnIndex(column)])]

(***************************************************************************)
(* The transliteration service's answer and its parsing                    *)
(*                                                                         *)
(* A response is [ok, status_code, json]: ok = FALSE is a transport error  *)
(* or timeout of requests.get.  A JSON value is [k, v]: k = "str" with v   *)
(* the characters, k = "list" with v the elements, k = "dict" with v the   *)
(* keys (in insertion order), k = "null" for null, numbers and booleans,   *)
(* k = "invalid" for a body response.json() cannot decode.                 *)
(***************************************************************************)
JStr(s) == [k |-> "str", v |-> s]
JList(items) == [k |-> "list", v |-> items]
JDict(keys) == [k |-> "dict", v |-> keys]
JNull == [k |-> "null", v |-> <<>>]
JInvalid == [k |-> "invalid", v |-> <<>>]

SUCCESS == <<"S", "U", "C", "C", "E", "S", "S">>

HttpOk == 200

\* j[i] raises nothing (i is a 0-based integer index): IndexError past the
\* end, KeyError on a dict (JSON keys are strings), TypeError on the rest
CanIndex(j, i) == j.k \in {"list", "str"} /\ i < Len(j.v)

GetItem(j, i) == IF j.k = "str" THEN JStr(<<j.v[i + 1]>>) ELSE j.v[i + 1]

\* iter(j) raises nothing
IsIterable(j) == j.k \in {"list", "str", "dict"}

\* the elements iteration yields: list elements, the characters of a string,
\* the keys of a dict
Iter(j) ==
    IF j.k = "list" THEN j.v
    ELSE IF j.k = "str" THEN [i \in 1..Len(j.v) |-> JStr(<<j.v[i]>>)]
    ELSE [i \in 1..Len(j.v) |-> JStr(j.v[i])]

\* a == b on JSON values
JEq(a, b) == a.k = b.k /\ a.v = b.v

\* list(itertools.product(*pools)): the last pool varies fastest
RECURSIVE Product(_)
Product(pools) ==
    IF Len(pools) = 0 THEN << <<>> >>
    ELSE LET head == pools[1]
             rest == Product(Tail(pools))
             m == Len(rest)
         IN [n \in 1..(Len(head) * m) |->
                <<head[((n - 1) \div m) + 1]>> \o rest[((n - 1) % m) + 1]]

\* "".join(combo) for a combination of JSON strings
RECURSIVE JoinCombo(_)
JoinCombo(combo) ==
    IF Len(combo) = 0 THEN <<>> ELSE combo[1].v \o JoinCombo(Tail(combo))

\* list(dict.fromkeys(phrases)): first occurrences, in order
RECURSIVE DedupFrom(_, _, _)
DedupFrom(phrases, i, acc) ==
    IF i > Len(phrases) THEN acc
    ELSE DedupFrom(phrases, i + 1,
                   IF \E n \in 1..Len(acc) : acc[n] = phrases[i]
                   THEN acc ELSE Append(acc, phrases[i]))

\* variant: duplicates kept
UniquePhrasesKeepingDuplicates(phrases) == phrases

UniquePhrases(phrases) == DedupFrom(phrases, 1, <<>>)

\* xs[:n]
Take(xs, n) == SubSeq(xs, 1, IF n < Len(xs) THEN n ELSE Len(xs))

\* lines 100-107: product, join, deduplicate, cut to max_results
\* variant: tokens without candidates are left out of the product
ExpandPhrasesSkippingEmptyPools(pools, max_results) ==
    LET combinations == Product(SelectSeq(pools, LAMBDA pool : Len(pool) > 0))
        transliterated_phrases ==
            [n \in 1..Len(combinations) |-> JoinCombo(combinations[n])]
    IN Take(UniquePhrases(transliterated_phrases), max_results)

ExpandPhrases(pools, max_results) ==
    LET combinations == Product(pools)
        transliterated_phrases ==
            [n \in 1..Len(combinations) |-> JoinCombo(combinations[n])]
    IN Take(UniquePhrases(transliterated_phrases), max_results)

\* TRUE iff "".join raises TypeError on some combination
JoinRaises(pools) ==
    /\ \A i \in 1..Len(pools) : Len(pools[i]) > 0
    /\ \E i \in 1..Len(pools) : \E n \in 1..Len(pools[i]) : pools[i][n].k # "str"

\* the uncached body of transliterate_text(text, 'kn', max_results) when the
\* service answers resp; every exception ends in `return [text]`
Fetch(text, max_results, resp) ==
    IF ~resp.ok THEN <<text>>
    ELSE IF resp.status_code # HttpOk THEN <<text>>
    ELSE IF resp.json.k = "invalid" THEN <<text>>
    ELSE LET result == resp.json IN
    IF ~CanIndex(result, 0) THEN <<text>>
    ELSE IF ~JEq(GetItem(result, 0), JStr(SUCCESS)) THEN <<text>>
    ELSE IF ~CanIndex(result, 1) THEN <<text>>
    ELSE IF ~IsIterable(GetItem(result, 1)) THEN <<text>>
    ELSE LET items == Iter(GetItem(result, 1)) IN
    IF \E i \in 1..Len(items) : ~CanIndex(items[i], 1) THEN <<text>>
    ELSE LET token_suggestions == [i \in 1..Len(items) |-> GetItem(items[i], 1)] IN
    IF \E i \in 1..Len(items) : ~IsIterable(token_suggestions[i]) THEN <<text>>
    ELSE LET pools == [i \in 1..Len(items) |-> Iter(token_suggestions[i])] IN
    IF JoinRaises(pools) THEN <<text>>
    ELSE ExpandPhrases(pools, max_results)

(***************************************************************************)
(* The memoized transliteration client                                     *)
(***************************************************************************)
Lang == "kn"

SmartMaxResults == 5

FuzzyMaxResults == 1

CacheKey(text, max_results) == <<text, Lang, max_results>>

\* @st.cache_data(show_spinner=False): a hit returns the stored value and the
\* body is not executed; there is no ttl, so an entry is never dropped
IsCached(cache, text, max_results) == CacheKey(text, max_results) \in DOMAIN cache

TransliterateText(cache, text, max_results, resp) ==
    IF IsCached(cache, text, max_results)
    THEN cache[CacheKey(text, max_results)]
    ELSE Fetch(text, max_results, resp)

\* variant: the fallback [text] is not stored
CacheAfterCallSkippingFallback(cache, text, max_results, resp) ==
    IF IsCached(cache, text, max_results) \/ Fetch(text, max_results, resp) = <<text>>
    THEN cache
    ELSE [key \in DOMAIN cache \cup {CacheKey(text, max_results)} |->
            IF key = CacheKey(text, max_results)
            THEN Fetch(text, max_results, resp)
            ELSE cache[key]]

CacheAfterCall(cache, text, max_results, resp) ==
    IF IsCached(cache, text, max_results)
    THEN cache
    ELSE [key \in DOMAIN cache \cup {CacheKey(text, max_results)} |->
            IF key = CacheKey(text, max_results)
            THEN Fetch(text, max_results, resp)
            ELSE cache[key]]

(***************************************************************************)
(* Smart search                                                            *)
(***************************************************************************)
\* lines 146-153: the variations searched
SearchVariations(term, is_english, translit) ==
    IF is_english /\ Len(translit) > 0 /\ translit # <<term>>
    THEN translit
    ELSE <<term>>

\* lines 163-165: AND of the keywords' masks, starting from all True
\* variant: the keywords must occur as one phrase, in order
TermMaskInOrder(series, keywords, mask) ==
    [r \in 1..Len(series) |->
        mask[r] /\ StrContains(series[r], Join(<<" ">>, keywords))]

\* variant: a variation without keywords matches no row
TermMaskNothingWithoutKeywords(series, keywords, mask) ==
    [r \in 1..Len(series) |->
        /\ Len(keywords) > 0
        /\ mask[r]
        /\ \A i \in 1..Len(keywords) : StrContains(series[r], keywords[i])]

RECURSIVE TermMask(_, _, _)
TermMask(series, keywords, mask) ==
    IF Len(keywords) = 0 THEN mask
    ELSE TermMask(series, Tail(keywords),
                  [r \in 1..Len(series) |->
                      mask[r] /\ StrContains(series[r], keywords[1])])

\* lines 158-167: OR of the variations' masks, starting from all False
RECURSIVE FinalMask(_, _, _)
FinalMask(series, variations, mask) ==
    IF Len(variations) = 0 THEN mask
    ELSE FinalMask(series, Tail(variations),
                   [r \in 1..Len(series) |->
                       mask[r] \/ TermMask(series, Split(variations[1]),
                                           [q \in 1..Len(series) |-> TRUE])[r]])

\* positions lo..hi of the True entries of a mask, ascending: df[final_mask]
RECURSIVE MaskedRows(_, _, _)
MaskedRows(mask, lo, hi) ==
    IF lo > hi THEN <<>>
    ELSE IF lo = hi THEN (IF mask[lo] THEN <<lo>> ELSE <<>>)
    ELSE LET mid == (lo + hi) \div 2
         IN MaskedRows(mask, lo, mid) \o MaskedRows(mask, mid + 1, hi)

SmartSearch(table, column, variations) ==
    MaskedRows(FinalMask(SearchSeries(table, column), variations,
                         [r \in 1..Len(table) |-> FALSE]), 1, Len(table))

(***************************************************************************)
(* Fuzzy search: rapidfuzz fuzz.token_sort_ratio and process.extract       *)
(***************************************************************************)
ScoreCutoff == 70

FuzzyLimit == 100

\* s < t in code point order
RECURSIVE StrLess(_, _)
StrLess(s, t) ==
    IF Len(t) = 0 THEN FALSE
    ELSE IF Len(s) = 0 THEN TRUE
    ELSE IF Ord(s[1]) # Ord(t[1]) THEN Ord(s[1]) < Ord(t[1])
    ELSE StrLess(Tail(s), Tail(t))

\* sorted(tokens)
RECURSIVE SortTokens(_)
SortTokens(tokens) ==
    IF Len(tokens) <= 1 THEN tokens
    ELSE LET rest == SortTokens(Tail(tokens))
             x == tokens[1]
             p == Cardinality({i \in 1..Len(rest) : StrLess(rest[i], x)})
         IN SubSeq(rest, 1, p) \o <<x>> \o SubSeq(rest, p + 1, Len(rest))

\* length of a longest common subsequence of s[i..] and t[j..]
RECURSIVE Lcs(_, _, _, _)
Lcs(s, t, i, j) ==
    IF i > Len(s) \/ j > Len(t) THEN 0
    ELSE IF s[i] = t[j] THEN 1 + Lcs(s, t, i + 1, j + 1)
    ELSE LET a == Lcs(s, t, i + 1, j)
             b == Lcs(s, t, i, j + 1)
         IN IF a >= b THEN a ELSE b

\* fuzz.ratio: 100 * (1 - indel distance / (len1 + len2)), kept exact as the
\* fraction n / d; two empty strings score 100
Ratio(s, t) ==
    IF Len(s) + Len(t) = 0 THEN [n |-> 100, d |-> 1]
    ELSE [n |-> 200 * Lcs(s, t, 1, 1), d |-> Len(s) + Len(t)]

\* fuzz.token_sort_ratio(s1, s2): the ratio of the sorted, re-joined tokens
TokenSortRatio(s1, s2) ==
    Ratio(Join(<<" ">>, SortTokens(Split(s1))), Join(<<" ">>, SortTokens(Split(s2))))

\* x >= y on scores
ScoreGE(x, y) == x.n * y.d >= y.n * x.d

AtLeast(score, cutoff) == score.n >= cutoff * score.d

\* the matches (given in row order) in descending score, equal scores in
\* row order: each match moves behind the matches that beat it
SortMatches(ms) ==
    LET n == Len(ms)
        beats(j, i) ==
            \/ ~ScoreGE(ms[i].score, ms[j].score)
            \/ ScoreGE(ms[i].score, ms[j].score) /\ ScoreGE(ms[j].score, ms[i].score)
               /\ j < i
        place == [i \in 1..n |-> 1 + Cardinality({j \in 1..n : beats(j, i)})] \o <<>>
    IN [p \in 1..n |-> ms[CHOOSE i \in 1..n : place[i] = p]]

\* (score, index) of the rows lo..hi at or above the cutoff, in row order
RECURSIVE ScoredRows(_, _, _, _)
ScoredRows(target, series, lo, hi) ==
    IF lo > hi THEN <<>>
    ELSE IF lo = hi
    THEN LET score == TokenSortRatio(target, series[lo])
         IN IF AtLeast(score, ScoreCutoff)
            THEN <<[score |-> score, index |-> lo]>> ELSE <<>>
    ELSE LET mid == (lo + hi) \div 2
         IN ScoredRows(target, series, lo, mid)
            \o ScoredRows(target, series, mid + 1, hi)

\* process.extract(target, series, scorer=fuzz.token_sort_ratio, limit=100,
\* score_cutoff=70): the rows at or above the cutoff, best first, at most
\* limit of them
\* variant: the matches stay in row order
ExtractUnsorted(target, series) ==
    Take(ScoredRows(target, series, 1, Len(series)), FuzzyLimit)

Extract(target, series) ==
    Take(SortMatches(ScoredRows(target, series, 1, Len(series))), FuzzyLimit)

\* lines 175-181: the phrase scored against
TargetTerm(term, is_english, translit) ==
    IF is_english /\ Len(translit) > 0 THEN translit[1] ELSE term

(***************************************************************************)
(* Loading                                                                 *)
(***************************************************************************)
\* pd.read_csv(path, dtype=str): every cell is text, an empty field is NaN
LoadSingleFile(contents) ==
    [r \in 1..Len(contents) |->
        [c \in 1..Len(Columns) |->
            IF contents[r][c] = <<>> THEN NaN ELSE contents[r][c]]]

NotCached == [cached |-> FALSE, value |-> <<>>]

\* @st.cache_data(ttl="2h") load_single_file(file_path): the key is the
\* path (and the function's source), not the file's contents or mtime
\* variant: the file is read on every load
CachedLoadRereadsFile(cache, contents) == LoadSingleFile(contents)

CachedLoad(cache, contents) ==
    IF cache.cached THEN cache.value ELSE LoadSingleFile(contents)

(***************************************************************************)
(* One execution of the script                                             *)
(***************************************************************************)
\* what a run saw and produced
RunRecord(term, column, fuzzy, table, variations, res) ==
    [search_term |-> term, search_column |-> column, use_fuzzy |-> fuzzy,
     file |-> file, df |-> table, search_variations |-> variations,
     results |-> res]

Remember(rec) ==
    IF Len(history) = 0 THEN <<rec>> ELSE <<history[Len(history)], rec>>

\* lines 57-67: load the selected file through the cache
Load ==
    /\ df' = CachedLoad(load_cache, file)
    /\ load_cache' = [cached |-> TRUE, value |-> CachedLoad(load_cache, file)]
    /\ UNCHANGED file

\* lines 220-222: empty search box, the preview is shown
Preview(column, fuzzy, resp) ==
    /\ Load
    /\ search_term' = <<>>
    /\ search_column' = column
    /\ use_fuzzy' = fuzzy
    /\ service' = resp
    /\ contacted' = FALSE
    /\ transliterated' = <<>>
    /\ search_variations' = <<>>
    /\ target_term' = <<>>
    /\ matches' = <<>>
    /\ results' = <<>>
    /\ history' = Remember(RunRecord(<<>>, column, fuzzy, df', <<>>, <<>>))
    /\ UNCHANGED translit_cache

\* lines 143-169
SmartRun(term, column, resp) ==
    LET is_english == IsEnglish(term)
        translit == IF is_english
                    THEN TransliterateText(translit_cache, term, SmartMaxResults, resp)
                    ELSE <<>>
        variations == SearchVariations(term, is_english, translit)
    IN /\ Load
       /\ search_term' = term
       /\ search_column' = column
       /\ use_fuzzy' = FALSE
       /\ service' = resp
       /\ contacted' = (is_english /\ ~IsCached(translit_cache, term, SmartMaxResults))
       /\ translit_cache' = IF is_english
                            THEN CacheAfterCall(translit_cache, term, SmartMaxResults, resp)
                            ELSE translit_cache
       /\ transliterated' = translit
       /\ search_variations' = variations
       /\ target_term' = <<>>
       /\ matches' = <<>>
       /\ results' = SmartSearch(df', column, variations)
       /\ history' = Remember(RunRecord(term, column, FALSE, df', variations, results'))

\* lines 172-200
FuzzyRun(term, column, resp) ==
    LET is_english == IsEnglish(term)
        translit == IF is_english
                    THEN TransliterateText(translit_cache, term, FuzzyMaxResults, resp)
                    ELSE <<>>
        target == TargetTerm(term, is_english, translit)
    IN /\ Load
       /\ search_term' = term
       /\ search_column' = column
       /\ use_fuzzy' = TRUE
       /\ service' = resp
       /\ contacted' = (is_english /\ ~IsCached(translit_cache, term, FuzzyMaxResults))
       /\ translit_cache' = IF is_english
                            THEN CacheAfterCall(translit_cache, term, FuzzyMaxResults, resp)
                            ELSE translit_cache
       /\ transliterated' = translit
       /\ search_variations' = <<>>
       /\ target_term' = target
       /\ matches' = Extract(target, SearchSeries(df', column))
       /\ results' = [i \in 1..Len(matches') |-> matches'[i].index]
       /\ history' = Remember(RunRecord(term, column, TRUE, df', <<>>, results'))

ScriptRun(term, column, fuzzy, resp) ==
    IF Len(term) = 0 THEN Preview(column, fuzzy, resp)
    ELSE IF fuzzy THEN FuzzyRun(term, column, resp)
    ELSE SmartRun(term, column, resp)

\* the data file is replaced on disk
WriteFile(contents) ==
    /\ file' = contents
    /\ UNCHANGED <<load_cache, df, translit_cache, search_term, search_column,
                   use_fuzzy, service, contacted, transliterated,
                   search_variations, target_term, matches, results, history>>

\* two hours have passed since the entry was stored (ttl="2h")
LoadCacheExpires ==
    /\ load_cache.cached
    /\ load_cache' = NotCached
    /\ UNCHANGED <<file, df, translit_cache, search_term, search_column,
                   use_fuzzy, service, contacted, transliterated,
                   search_variations, target_term, matches, results, history>>

(***************************************************************************)
(* Inputs                                                                  *)
(***************************************************************************)
MaxRows == 2

MaxTokens == 3

SeqsUpTo(S, n) == UNION {[1..m -> S] : m \in 0..n}

RaVi == <<"ra", " ", "vi">>
ViRa == <<"vi", " ", "ra">>
RaViRa == <<"ra", " ", "vi", " ", "ra">>
LatinAB == <<"a", " ", "b">>
LatinBA == <<"b", " ", "a">>

\* rows (Name, Address) as they stand in the file
Rows ==
    { <<RaVi, LatinAB>>,
      <<ViRa, <<>>>>,
      <<<<"A", "B">>, <<"vi">>>>,
      <<RaViRa, <<"b", " ", "A">>>> }

\* a file longer than the fuzzy limit
BigFile ==
    [r \in 1..(FuzzyLimit + 2) |->
        CASE r % 3 = 1 -> <<RaViRa, <<>>>>
          [] r % 3 = 2 -> <<ViRa, <<"a">>>>
          [] OTHER -> <<RaVi, <<>>>>]

Files == SeqsUpTo(Rows, MaxRows) \cup {BigFile}

Queries ==
    { RaVi, ViRa, <<"ra">>, <<" ">>, <<"vi", " ", " ", "ra">>,
      LatinAB, LatinBA, <<"a">>, <<"a", "b">>, <<"n", "a", "n">> }

ColumnChoices == {AllColumns} \cup {Columns[i] : i \in 1..Len(Columns)}

TransportError == [ok |-> FALSE, status_code |-> 0, json |-> JNull]

Http(status, body) == [ok |-> TRUE, status_code |-> status, json |-> body]

Token(original, candidates) ==
    JList(<<JStr(original),
            JList([i \in 1..Len(candidates) |-> JStr(candidates[i])])>>)

Success(tokens) == Http(HttpOk, JList(<<JStr(SUCCESS), JList(tokens)>>))

\* answers of the expected shape [status, [[token, [candidate, ...]], ...]]
CandidateLists ==
    { <<>>, <<<<"ra">>>>, <<<<"ra">>, <<"vi">>>>, <<<<"vi">>, <<"ra">>>>,
      <<<<>>, <<"ra">>>>, <<<<"ra">>, <<"ra">>>> }

WellFormedResponses ==
    {Success(tokens) :
        tokens \in SeqsUpTo({Token(<<"a">>, c) : c \in CandidateLists}, MaxTokens)}

\* failures and answers of an unexpected shape
BadResponses ==
    { TransportError,
      Http(500, JList(<<JStr(SUCCESS), JList(<<Token(<<"a">>, <<<<"ra">>>>)>>)>>)),
      Http(HttpOk, JInvalid),
      Http(HttpOk, JNull),
      Http(HttpOk, JStr(SUCCESS)),
      Http(HttpOk, JDict(<<SUCCESS>>)),
      Http(HttpOk, JList(<<>>)),
      Http(HttpOk, JList(<<JStr(SUCCESS)>>)),
      Http(HttpOk, JList(<<JStr(<<"E">>), JList(<<Token(<<"a">>, <<<<"ra">>>>)>>)>>)),
      Http(HttpOk, JList(<<JNull, JList(<<Token(<<"a">>, <<<<"ra">>>>)>>)>>)),
      Http(HttpOk, JList(<<JStr(SUCCESS), JNull>>)),
      Http(HttpOk, JList(<<JStr(SUCCESS), JStr(<<>>)>>)),
      Http(HttpOk, JList(<<JStr(SUCCESS), JStr(<<"a">>)>>)),
      Http(HttpOk, JList(<<JStr(SUCCESS), JDict(<<>>)>>)),
      Http(HttpOk, JList(<<JStr(SUCCESS), JDict(<<<<"ra", "vi">>>>)>>)),
      Http(HttpOk, JList(<<JStr(SUCCESS), JList(<<JNull>>)>>)),
      Http(HttpOk, JList(<<JStr(SUCCESS), JList(<<JList(<<JStr(<<"a">>)>>)>>)>>)),
      Http(HttpOk, JList(<<JStr(SUCCESS), JList(<<JStr(<<"a", "b">>)>>)>>)),
      Http(HttpOk, JList(<<JStr(SUCCESS),
                           JList(<<JList(<<JStr(<<"a">>), JNull>>)>>)>>)),
      Http(HttpOk, JList(<<JStr(SUCCESS),
                           JList(<<JList(<<JStr(<<"a">>), JStr(<<"ra", "vi">>)>>)>>)>>)),
      Http(HttpOk, JList(<<JStr(SUCCESS),
                           JList(<<JList(<<JStr(<<"a">>), JDict(<<<<"ra">>>>)>>)>>)>>)),
      Http(HttpOk, JList(<<JStr(SUCCESS),
                           JList(<<JList(<<JStr(<<"a">>), JStr(<<>>)>>)>>)>>)),
      Http(HttpOk, JList(<<JStr(SUCCESS),
                           JList(<<JList(<<JStr(<<"a">>),
                                           JList(<<JStr(<<"ra">>), JNull>>)>>)>>)>>)),
      Http(HttpOk, JList(<<JStr(SUCCESS),
                           JList(<<JList(<<JStr(<<"a">>), JList(<<>>)>>),
                                   JList(<<JStr(<<"b">>), JList(<<JNull>>)>>)>>)>>)) }

\* a few answers for the search runs
SearchResponses ==
    { TransportError,
      Success(<<Token(LatinAB, <<RaVi, <<"vi">>>>)>>),
      Success(<<Token(<<"a">>, <<<<"ra">>, <<"vi">>>>), Token(<<"b">>, <<<<"vi">>>>)>>),
      Success(<<Token(<<"a">>, <<>>)>>),
      Success(<<>>) }

(***************************************************************************)
(* Specifications                                                          *)
(***************************************************************************)
\* before the first execution: the file is on disk, both caches are empty
InitWith(contents) ==
    /\ file = contents
    /\ load_cache = NotCached
    /\ df = <<>>
    /\ translit_cache = <<>>
    /\ search_term = <<>>
    /\ search_column = AllColumns
    /\ use_fuzzy = FALSE
    /\ service = TransportError
    /\ contacted = FALSE
    /\ transliterated = <<>>
    /\ search_variations = <<>>
    /\ target_term = <<>>
    /\ matches = <<>>
    /\ results = <<>>
    /\ history = <<>>

\* one search over every file, query, column, mode and a few answers
InitSearch == \E contents \in Files : InitWith(contents)

Search ==
    /\ Len(history) = 0
    /\ \E term \in Queries, column \in ColumnChoices, fuzzy \in BOOLEAN,
          resp \in SearchResponses :
          ScriptRun(term, column, fuzzy, resp)

NextSearch == Search

SpecSearch == InitSearch /\ [][NextSearch]_vars

\* one search of a Latin query over every answer of the service
TranslitFile == << <<RaVi, LatinAB>>, <<ViRa, <<>>>> >>

InitTranslit == InitWith(TranslitFile)

Transliterate ==
    /\ Len(history) = 0
    /\ \E term \in {<<"a">>, LatinAB}, fuzzy \in BOOLEAN,
          resp \in WellFormedResponses \cup BadResponses :
          ScriptRun(term, AllColumns, fuzzy, resp)

NextTranslit == Transliterate

SpecTranslit == InitTranslit /\ [][NextTranslit]_vars

\* two smart searches in a row over the same file
OrderQueries == {RaVi, ViRa, LatinAB, LatinBA}

OrderResponses ==
    { TransportError,
      Success(<<Token(LatinAB, <<RaVi>>)>>),
      Success(<<Token(<<"a">>, <<<<"ra">>>>), Token(<<"b">>, <<<<"vi">>>>)>>) }

InitOrder == \E contents \in Files \ {BigFile} : InitWith(contents)

FirstSearch ==
    /\ Len(history) = 0
    /\ \E term \in OrderQueries, column \in ColumnChoices, resp \in OrderResponses :
          ScriptRun(term, column, FALSE, resp)

SecondSearch ==
    /\ Len(history) = 1
    /\ \E term \in OrderQueries, resp \in OrderResponses :
          ScriptRun(term, search_column, FALSE, resp)

NextOrder == FirstSearch \/ SecondSearch

SpecOrder == InitOrder /\ [][NextOrder]_vars

\* the application: any number of executions, the file edited and the load
\* cache expiring in between
AppFiles == { << <<RaVi, LatinAB>> >>, << <<ViRa, <<"a">>>>, <<RaVi, <<>>>> >> }

AppQueries == {<<>>, <<"a">>}

AppResponses == {TransportError, Success(<<Token(<<"a">>, <<<<"ra">>>>)>>)}

Init == \E contents \in AppFiles : InitWith(contents)

Run ==
    \E term \in AppQueries, fuzzy \in BOOLEAN, resp \in AppResponses :
        ScriptRun(term, AllColumns, fuzzy, resp)

Edit == \E contents \in AppFiles : contents # file /\ WriteFile(contents)

Next == Run \/ Edit \/ LoadCacheExpires

Spec == Init /\ [][Next]_vars

(***************************************************************************)
(* Vocabulary of the properties                                            *)
(***************************************************************************)
Ran == Len(history) > 0

SmartRan == Ran /\ Len(search_term) > 0 /\ ~use_fuzzy

FuzzyRan == Ran /\ Len(search_term) > 0 /\ use_fuzzy

RowNumbers == 1..Len(df)

ResultSet == {results[i] : i \in 1..Len(results)}

CasePairs == {{"a", "A"}, {"b", "B"}, {"n", "N"}}

SameLetter(c, d) == c = d \/ {c, d} \in CasePairs

\* kw occurs in text as a literal substring
Occurs(kw, text) ==
    \E o \in 0..(Len(text) - Len(kw)) : \A i \in 1..Len(kw) : text[o + i] = kw[i]

\* kw occurs in text as a literal substring, letter case ignored
OccursIgnoringCase(kw, text) ==
    \E o \in 0..(Len(text) - Len(kw)) :
        \A i \in 1..Len(kw) : SameLetter(text[o + i], kw[i])

\* the whitespace-separated keywords of a phrase: its maximal runs of
\* characters other than whitespace
KeywordsOf(phrase) ==
    { SubSeq(phrase, i, j) : <<i, j>> \in
        { ij \in (1..Len(phrase)) \X (1..Len(phrase)) :
            /\ ij[1] <= ij[2]
            /\ \A q \in ij[1]..ij[2] : phrase[q] # " "
            /\ (ij[1] = 1 \/ phrase[ij[1] - 1] = " ")
            /\ (ij[2] = Len(phrase) \/ phrase[ij[2] + 1] = " ") } }

RowText(r) == SearchSeries(df, search_column)[r]

MatchesVariation(r, variation) ==
    \A kw \in KeywordsOf(variation) : OccursIgnoringCase(kw, RowText(r))

\* the answer has the shape [SUCCESS, [[token, [candidate, ...], ...], ...]]
ExpectedShape(j) ==
    /\ j.k = "list"
    /\ Len(j.v) >= 2
    /\ JEq(j.v[1], JStr(SUCCESS))
    /\ j.v[2].k = "list"
    /\ \A i \in 1..Len(j.v[2].v) :
          LET item == j.v[2].v[i]
          IN /\ item.k = "list"
             /\ Len(item.v) >= 2
             /\ item.v[2].k = "list"
             /\ \A n \in 1..Len(item.v[2].v) : item.v[2].v[n].k = "str"

Succeeded(resp) == resp.ok /\ resp.status_code = 200 /\ ExpectedShape(resp.json)

\* the per-token candidate lists of an answer of the expected shape
CandidatePools(resp) ==
    [i \in 1..Len(resp.json.v[2].v) |->
        [n \in 1..Len(resp.json.v[2].v[i].v[2].v) |->
            resp.json.v[2].v[i].v[2].v[n].v]]

MaxResultsUsed == IF use_fuzzy THEN 1 ELSE 5

\* the last run called transliterate_text and its body ran
Called == Ran /\ contacted

(***************************************************************************)
(* C1  Smart search returns, in table order, exactly the rows for which    *)
(* some variation actually searched has every one of its whitespace-       *)
(* separated keywords occurring in the row's searchable text as a literal  *)
(* substring, letter case ignored.                                         *)
(***************************************************************************)
C1_SmartIff ==
    SmartRan =>
        /\ \A i \in 1..Len(results), j \in 1..Len(results) :
              i < j => results[i] < results[j]
        /\ ResultSet =
              { r \in RowNumbers :
                  \E n \in 1..Len(search_variations) :
                      MatchesVariation(r, search_variations[n]) }

C1_Witness ==
    /\ SmartRan
    /\ Len(search_variations) > 1
    /\ Cardinality(KeywordsOf(search_variations[1])) > 1
    /\ \E r \in ResultSet :
          /\ ~MatchesVariation(r, search_variations[1])
          /\ MatchesVariation(r, search_variations[2])
    /\ \E r \in RowNumbers : r \notin ResultSet

(***************************************************************************)
(* C2  (as stated) With "All Columns", a row one of whose cells contains   *)
(* the query as a substring is returned by smart search, whatever the      *)
(* query and whatever the transliteration call returned.                   *)
(***************************************************************************)
CellHolds(r, term) ==
    \E c \in 1..Len(Columns) : df[r][c] # NaN /\ Occurs(term, df[r][c])

C2_SubstringRowReturned ==
    SmartRan /\ search_column = AllColumns =>
        \A r \in RowNumbers : CellHolds(r, search_term) => r \in ResultSet

(***************************************************************************)
(* C2  (amended) ... is returned by smart search whenever the query is     *)
(* searched as itself: it has no Latin letter, or transliterate_text       *)
(* returned nothing or the query unchanged.                                *)
(***************************************************************************)
SearchedAsItself ==
    \/ ~IsEnglish(search_term)
    \/ Len(transliterated) = 0
    \/ transliterated = <<search_term>>

C2_SubstringRowReturnedWhenSearched ==
    SmartRan /\ search_column = AllColumns /\ SearchedAsItself =>
        \A r \in RowNumbers : CellHolds(r, search_term) => r \in ResultSet

C2_Witness ==
    /\ SmartRan
    /\ search_column = AllColumns
    /\ contacted
    /\ transliterated = <<search_term>>
    /\ \E r \in ResultSet :
          /\ Occurs(search_term, df[r][2])
          /\ ~OccursIgnoringCase(search_term, df[r][1])

(***************************************************************************)
(* C3  (as stated) Two smart searches over the same table and column whose *)
(* queries hold the same words in a different order return the same rows,  *)
(* whatever the service returned for either query.                         *)
(***************************************************************************)
Count(word, words) == Cardinality({i \in 1..Len(words) : words[i] = word})

SameWords(s, t) ==
    /\ Len(Split(s)) = Len(Split(t))
    /\ \A i \in 1..Len(Split(s)) :
          Count(Split(s)[i], Split(s)) = Count(Split(s)[i], Split(t))

Reordered ==
    /\ Len(history) = 2
    /\ ~history[1].use_fuzzy /\ ~history[2].use_fuzzy
    /\ Len(history[1].search_term) > 0
    /\ history[1].df = history[2].df
    /\ history[1].search_column = history[2].search_column
    /\ history[1].search_term # history[2].search_term
    /\ SameWords(history[1].search_term, history[2].search_term)

C3_OrderInvariant ==
    Reordered => history[1].results = history[2].results

(***************************************************************************)
(* C3  (amended) ... return the same rows whenever each search used its    *)
(* query as the sole variation (no Latin letter in it, or the              *)
(* transliteration returned nothing or the query unchanged).               *)
(***************************************************************************)
BothSearchedAsThemselves ==
    \A i \in 1..2 : history[i].search_variations = <<history[i].search_term>>

C3_OrderInvariantWhenSearched ==
    Reordered /\ BothSearchedAsThemselves =>
        history[1].results = history[2].results

C3_Witness ==
    /\ Reordered
    /\ BothSearchedAsThemselves
    /\ Len(results) > 0
    /\ Len(results) < Len(df)
    /\ \E i \in 1..Len(results) :
          ~Occurs(search_term, RowText(results[i]))

(***************************************************************************)
(* C4  Whenever the request fails (transport error or timeout, a status    *)
(* other than 200, a status field other than SUCCESS, a body that is not   *)
(* of the expected shape), transliterate_text returns exactly [text], and  *)
(* the search uses the query as its sole variation (smart) or as its       *)
(* target phrase (fuzzy).                                                  *)
(***************************************************************************)
C4_FailureAbsorbed ==
    Called /\ ~Succeeded(service) =>
        /\ transliterated = <<search_term>>
        /\ (~use_fuzzy => search_variations = <<search_term>>)
        /\ (use_fuzzy => target_term = search_term)

(***************************************************************************)
(* C5  On an answer of the expected shape transliterate_text returns the   *)
(* first max_results phrases of the cartesian product of the candidate     *)
(* lists, each combination joined without separator, duplicates dropped    *)
(* in first-seen order: at most max_results phrases, no phrase twice,      *)
(* every phrase a combination, phrases in the order of their first         *)
(* combination, no earlier phrase left out, the first phrase made of the   *)
(* first candidates.                                                       *)
(***************************************************************************)
\* the ways to pick one candidate per token
Longest(pools) ==
    CHOOSE n \in {0} \cup {Len(pools[i]) : i \in 1..Len(pools)} :
        \A i \in 1..Len(pools) : Len(pools[i]) <= n

Combinations(pools) ==
    { c \in [1..Len(pools) -> 1..Longest(pools)] :
        \A i \in 1..Len(pools) : c[i] <= Len(pools[i]) }

RECURSIVE Glue(_, _, _)
Glue(pools, c, i) ==
    IF i > Len(pools) THEN <<>> ELSE pools[i][c[i]] \o Glue(pools, c, i + 1)

\* c comes before d in the product
Before(c, d) ==
    \E i \in DOMAIN c : c[i] < d[i] /\ \A j \in 1..(i - 1) : c[j] = d[j]

\* the first combination that makes the phrase
FirstMaking(pools, phrase) ==
    CHOOSE c \in Combinations(pools) :
        /\ Glue(pools, c, 1) = phrase
        /\ \A d \in Combinations(pools) :
              Glue(pools, d, 1) = phrase => d = c \/ Before(c, d)

C5_ProductPrefix ==
    Called /\ Succeeded(service) =>
        LET pools == CandidatePools(service)
            all == Combinations(pools)
            out == transliterated
            made == {out[i] : i \in 1..Len(out)}
        IN /\ Len(out) <= MaxResultsUsed
           /\ \A i \in 1..Len(out), j \in 1..Len(out) : i # j => out[i] # out[j]
           /\ \A i \in 1..Len(out) : \E c \in all : Glue(pools, c, 1) = out[i]
           /\ \A i \in 1..Len(out), j \in 1..Len(out) :
                 i < j => Before(FirstMaking(pools, out[i]), FirstMaking(pools, out[j]))
           /\ \A c \in all :
                 Glue(pools, c, 1) \notin made =>
                    /\ Len(out) = MaxResultsUsed
                    /\ Before(FirstMaking(pools, out[Len(out)]), c)
           /\ all # {} => out[1] = Glue(pools, [i \in 1..Len(pools) |-> 1], 1)

C5_Witness ==
    /\ Called
    /\ Succeeded(service)
    /\ ~use_fuzzy
    /\ Len(transliterated) = 5
    /\ \E c \in Combinations(CandidatePools(service)) :
          \A i \in 1..5 : transliterated[i] # Glue(CandidatePools(service), c, 1)
    /\ \E c \in Combinations(CandidatePools(service)) :
          /\ FirstMaking(CandidatePools(service),
                         Glue(CandidatePools(service), c, 1)) # c
          /\ Before(c, FirstMaking(CandidatePools(service), transliterated[5]))

(***************************************************************************)
(* C6  (as stated) transliterate_text returns at least one phrase,         *)
(* whatever the service answers.                                           *)
(***************************************************************************)
C6_NeverEmpty == Called => Len(transliterated) > 0

(***************************************************************************)
(* C6  (amended) transliterate_text returns an empty list only for a 200   *)
(* SUCCESS answer in which some token's candidates are empty, and for      *)
(* every such answer of the expected shape; in every other case it returns *)
(* at least one phrase (the empty phrase for an empty token list).         *)
(***************************************************************************)
SomeTokenWithoutCandidates(resp) ==
    /\ resp.ok
    /\ resp.status_code = 200
    /\ resp.json.k = "list"
    /\ Len(resp.json.v) >= 2
    /\ JEq(resp.json.v[1], JStr(SUCCESS))
    /\ resp.json.v[2].k = "list"
    /\ \E i \in 1..Len(resp.json.v[2].v) :
          LET item == resp.json.v[2].v[i]
          IN /\ item.k = "list"
             /\ Len(item.v) >= 2
             /\ Len(item.v[2].v) = 0

C6_EmptyOnlyWithoutCandidates ==
    Called =>
        /\ Len(transliterated) = 0 => SomeTokenWithoutCandidates(service)
        /\ Succeeded(service) /\ SomeTokenWithoutCandidates(service)
              => Len(transliterated) = 0
        /\ Succeeded(service) /\ Len(service.json.v[2].v) = 0
              => transliterated = << <<>> >>

C6_Witness ==
    /\ Called
    /\ Succeeded(service)
    /\ Len(service.json.v[2].v) > 1
    /\ SomeTokenWithoutCandidates(service)
    /\ Len(transliterated) = 0
    /\ ~use_fuzzy
    /\ search_variations = <<search_term>>

(***************************************************************************)
(* C7  Fuzzy search returns rows of the table, no row twice, at most 100   *)
(* of them, each scoring at least 70 against the target phrase, in         *)
(* non-increasing score with equal scores in row order; a row at or above  *)
(* 70 is left out only when 100 rows are returned, none of which scores    *)
(* less than it.                                                           *)
(***************************************************************************)
ScoreOfRow(r) == TokenSortRatio(target_term, RowText(r))

Higher(x, y) == x.n * y.d > y.n * x.d

C7_FuzzyResult ==
    FuzzyRan =>
        LET n == Len(results) IN
        /\ n <= 100
        /\ Len(matches) = n
        /\ \A i \in 1..n :
              /\ results[i] \in RowNumbers
              /\ matches[i].index = results[i]
              /\ matches[i].score = ScoreOfRow(results[i])
              /\ matches[i].score.n >= 70 * matches[i].score.d
        /\ \A i \in 1..n, j \in 1..n :
              i < j =>
                 /\ results[i] # results[j]
                 /\ ~Higher(matches[j].score, matches[i].score)
                 /\ (~Higher(matches[i].score, matches[j].score)
                        => results[i] < results[j])
        /\ \A r \in RowNumbers \ ResultSet :
              LET score == ScoreOfRow(r)
              IN score.n >= 70 * score.d =>
                    /\ n = 100
                    /\ \A i \in 1..n : ~Higher(score, matches[i].score)

C7_Witness ==
    /\ FuzzyRan
    /\ Len(results) = 100
    /\ Len(df) > 100
    /\ Higher(matches[1].score, matches[100].score)
    /\ \E i \in 1..99 : results[i] > results[i + 1]
    /\ \E r \in RowNumbers \ ResultSet : ScoreOfRow(r) = matches[100].score

(***************************************************************************)
(* C8  (as stated) Every load returns the table derived from the contents  *)
(* the file has at that moment, also after the file was changed.           *)
(***************************************************************************)
C8_LoadIsFresh ==
    \A i \in 1..Len(history) : history[i].df = LoadSingleFile(history[i].file)

(***************************************************************************)
(* C8  (amended) A load returns the table stored for the path while that   *)
(* entry is live, whatever happened to the file since it was stored (the   *)
(* entry is keyed by the path and dropped only when its two hours are      *)
(* over); a load that finds no live entry reads the file as it is then,    *)
(* and stores what it read.                                                *)
(***************************************************************************)
C8_LoadServesLiveEntry ==
    [][history' # history =>
          /\ df' = IF load_cache.cached THEN load_cache.value
                   ELSE LoadSingleFile(file)
          /\ load_cache' = [cached |-> TRUE, value |-> df']]_vars

C8_Witness ==
    /\ Len(history) = 2
    /\ history[2].file # history[1].file
    /\ history[1].df = LoadSingleFile(history[1].file)
    /\ history[2].df = history[1].df
    /\ history[2].df # LoadSingleFile(history[2].file)
    /\ load_cache.cached

(***************************************************************************)
(* C9  The result of transliterate_text is memoized for good, the failure  *)
(* fallback included: after a call the key (text, lang, max_results) holds *)
(* the list returned, an entry is never dropped or changed, and a call     *)
(* whose key is stored returns the stored list without contacting the      *)
(* service; a query whose first call failed keeps being searched           *)
(* untransliterated when the service answers again.                        *)
(***************************************************************************)
KeyOfRun == CacheKey(search_term, IF use_fuzzy THEN FuzzyMaxResults ELSE SmartMaxResults)

C9_Memoized ==
    /\ [](Ran /\ IsEnglish(search_term) =>
             /\ KeyOfRun \in DOMAIN translit_cache
             /\ translit_cache[KeyOfRun] = transliterated)
    /\ [][/\ \A key \in DOMAIN translit_cache :
                /\ key \in DOMAIN translit_cache'
                /\ translit_cache'[key] = translit_cache[key]
          /\ (history' # history /\ IsEnglish(search_term')
                /\ KeyOfRun' \in DOMAIN translit_cache)
                => /\ ~contacted'
                   /\ transliterated' = translit_cache[KeyOfRun']
                   /\ (~use_fuzzy' => search_variations' =
                          SearchVariations(search_term', TRUE, translit_cache[KeyOfRun']))]_vars

C9_Witness ==
    /\ SmartRan
    /\ IsEnglish(search_term)
    /\ ~contacted
    /\ Succeeded(service)
    /\ Fetch(search_term, SmartMaxResults, service) # <<search_term>>
    /\ transliterated = <<search_term>>
    /\ search_variations = <<search_term>>

(***************************************************************************)
(* C10 In smart mode a variation without any keyword matches every row: a  *)
(* query made of whitespace only, or an empty phrase returned by the       *)
(* transliteration, yields the whole table.                                *)
(***************************************************************************)
C10_NoKeywordMatchesAll ==
    SmartRan /\ (\E n \in 1..Len(search_variations) :
                    KeywordsOf(search_variations[n]) = {})
        => results = [r \in 1..Len(df) |-> r]

C10_Witness ==
    /\ SmartRan
    /\ contacted
    /\ Succeeded(service)
    /\ search_variations = << <<>> >>
    /\ Len(df) > 1
    /\ Len(results) = Len(df)

C10_WitnessWhitespace ==
    /\ SmartRan
    /\ search_term = <<" ">>
    /\ search_variations = <<search_term>>
    /\ Len(df) > 1
    /\ Len(results) = Len(df)

====
